---- MODULE Spec2Model ----
(***************************************************************************)
(* Multi-stream audio capture and merge of meeting-assistant:              *)
(*   LegacyRecorder  (Device Capture)        core/recorders/legacy_recorder *)
(*   NativeRecorder  (System-Audio Capture)  core/recorders/native_recorder *)
(*   MultiRecorder   (Orchestrator)          core/recorders/multi_recorder  *)
(* Each thread of the program is a process of the model; one action is one *)
(* step of a thread between two points where another thread can observe or *)
(* change the shared fields (_recording / is_writing, _stop_event,         *)
(* _is_recording, output_paths, the files on disk).                        *)
(* Time is abstracted: a bounded wait (join(timeout), Event.wait(timeout)) *)
(* may end by its event or by its timeout.                                 *)
(* LegacyRecorder is modelled by the code of its methods. As written the    *)
(* class leaves BaseRecorder.is_recording abstract (AbstractMethods below), *)
(* so LegacyRecorder(...) raises TypeError until the property is defined.   *)
(***************************************************************************)
EXTENDS Integers, Sequences, FiniteSets, TLC

\* Bounds of the model.
MaxFrames == 2
MaxStopCalls == 2
SampleBits == 3
MaxInputLen == 2

\* os.path.getsize(p) > 44: the size of a WAV header without samples.
HeaderSize == 44

\* Indices of self.recorders, and the identities of the threads that call stop()
\* from outside (the thread of record_stream(recorder, idx) is called idx).
Sources == {0, 1}
NumSources == Cardinality(Sources)
Stoppers == {10, 11}

\* f"{base_name}_part_{idx}.wav" and os.path.join(output_dir, final_filename).
PartPath(i) == <<"recording", "part", i, "wav">>
MergedPath == <<"recording", "wav">>
EmptyResult == <<>>
Paths == {MergedPath} \cup {PartPath(i) : i \in Sources}

\* A file: data is the sequence of its frames, a frame holds one sample for each
\* channel; rate is the sample rate of its header.
NoFile == [exists |-> FALSE, data |-> <<>>, closed |-> FALSE, channels |-> 0, rate |-> 0]

\* samplerate: int = 48000 (legacy_recorder.py:15, native_recorder.py:75)
SampleRate == 48000

\* native_recorder.py:134: AVNumberOfChannelsKey: 2
NativeChannels == 2

\* legacy_recorder.py:22-30: self.channels, at most max_input_channels of the
\* device; the device of the model is a microphone with one channel
LegacyChannels == 1

\* subtype='PCM_16' (legacy_recorder.py:74), AVLinearPCMBitDepthKey: 16
\* (native_recorder.py:135): bytes of a sample in a file
SampleBytes == 2

VARIABLES
  mode,          \* "orch": sources owned by a MultiRecorder; "direct": used alone
  kind,          \* kind[s]: "legacy" or "native"
  \* MultiRecorder
  isRecording,   \* self._is_recording
  outputPaths,   \* self.output_paths
  opc,           \* position of the thread running MultiRecorder.record()
  oidx,          \* loop index of record() (thread start loop, join loop)
  validPaths,    \* valid_paths
  result,        \* what record() returned
  mergeCalls,    \* the input lists merge_audio_files was called with
  filterSeen,    \* what the filter of line 67 read: <<path, exists, size>>
  joinedDead,    \* the threads that had ended when their join() returned
  mergeRaised,   \* merge_audio_files raised (except branch of line 83)
  removeFailed,  \* the paths whose os.remove raised (line 79)
  \* capture sources
  tpc,           \* position of the thread running recorders[s].record()
  recording,     \* LegacyRecorder._recording / NativeRecorder.is_writing
  stopEvent,     \* self._stop_event
  raising,       \* an exception is propagating out of record()
  q,             \* LegacyRecorder: queue.Queue() of record()
  streamOn,      \* LegacyRecorder: sd.InputStream is open
  delivered,     \* buffers the platform handed to the callback
  writer,        \* NativeRecorder: AVAssetWriter status
  inputFinished, \* NativeRecorder: writer_input.markAsFinished() was called
  stream,        \* NativeRecorder: SCStream state
  cbpc,          \* NativeRecorder: position of the delegate callback
  sessionStarted,\* NativeRecorder: delegate.session_started
  stopLog,       \* history: the platform calls of the stop() a thread is in or was last in
  cbHist,        \* history of the delegate callback of a NativeRecorder used alone
  writtenBy,     \* history: writtenBy[p]: the threads that wrote to the file at path p
  files,         \* the file system: path -> [exists, data, closed]
  \* threads calling stop()
  spc,           \* position of the thread calling stop()
  sidx,          \* index of the recorder whose stop() it is in
  stopCalls,     \* stop() calls made so far on a source used alone
  \* history
  stopsEntered,  \* calls of MultiRecorder.stop() that passed the test of line 89
  srcStops,      \* srcStops[s]: how often recorders[s].stop() was called from outside
  lastOp         \* lastOp[s]: "stop" after a stop() on s returned, until record() writes s

orchVars == <<isRecording, outputPaths, opc, oidx, validPaths, result, mergeCalls,
             filterSeen, joinedDead, mergeRaised, removeFailed>>
srcVars == <<tpc, recording, stopEvent, raising>>
legVars == <<q, streamOn>>
natVars == <<writer, inputFinished, stream, cbpc>>
stopVars == <<spc, sidx, stopCalls>>
histVars == <<stopsEntered, srcStops, lastOp>>
natAux == <<sessionStarted, stopLog, cbHist>>
vars == <<mode, kind, orchVars, srcVars, legVars, natVars, delivered, files,
          stopVars, histVars, natAux, writtenBy>>

Channels(s) == IF kind[s] = "native" THEN NativeChannels ELSE LegacyChannels

\* the file record() of source s creates, and the frame that holds the buffer v
NewFile(s) == [exists |-> TRUE, data |-> <<>>, closed |-> FALSE,
               channels |-> Channels(s), rate |-> SampleRate]
Frame(s, v) == [c \in 1..Channels(s) |-> v]

FileSize(f) == HeaderSize + Len(f.data) * f.channels * SampleBytes

\* The threads of a recording, as they write files: the thread that runs
\* record() of a source, the platform thread that runs its delegate callback, a
\* thread that calls stop(), the thread that runs MultiRecorder.record()
RecordThread == "record"
CallbackThread == "callback"
StopThread == "stop"
OrchestratorThread == "orchestrator"
NoteWrite(p, th) == writtenBy' = [writtenBy EXCEPT ![p] = @ \cup {th}]

\* MultiRecorder reads of a part file only whether it holds samples (line 67):
\* one buffer per source tells the cases apart there.
FrameCap == IF mode = "orch" THEN 1 ELSE MaxFrames

\* lastOp is the history of a source used alone.
NoteRecord(s) == lastOp' = IF mode = "direct" THEN [lastOp EXCEPT ![s] = "record"] ELSE lastOp
NoteStop(s) == lastOp' = IF mode = "direct" THEN [lastOp EXCEPT ![s] = "stop"] ELSE lastOp

\* a thread object is alive from start() until its target returns or raises
Alive(s) == tpc[s] \notin {"idle", "dead", "raised"}

-----------------------------------------------------------------------------
(* LegacyRecorder                                                          *)

\* legacy_recorder.py:50-69: filepath, makedirs, q = Queue(), _recording = True
LegacyRecordSetFlag(s) ==
  /\ kind[s] = "legacy" /\ tpc[s] = "l_entry"
  /\ recording' = [recording EXCEPT ![s] = TRUE]
  /\ q' = [q EXCEPT ![s] = <<>>]
  /\ tpc' = [tpc EXCEPT ![s] = "l_clear"]
  /\ NoteRecord(s)
  /\ UNCHANGED <<mode, kind, orchVars, stopEvent, raising, streamOn, natVars,
                 delivered, files, stopVars, srcStops, stopsEntered, natAux, writtenBy>>

\* legacy_recorder.py:70: self._stop_event.clear()
LegacyRecordClear(s) ==
  /\ kind[s] = "legacy" /\ tpc[s] = "l_clear"
  /\ stopEvent' = [stopEvent EXCEPT ![s] = FALSE]
  /\ tpc' = [tpc EXCEPT ![s] = "l_open"]
  /\ NoteRecord(s)
  /\ UNCHANGED <<mode, kind, orchVars, recording, raising, legVars, natVars,
                 delivered, files, stopVars, srcStops, stopsEntered, natAux, writtenBy>>

\* legacy_recorder.py:73-76: with sf.SoundFile(...) as file: with sd.InputStream(...)
\* Either context manager may raise; a SoundFile opened before the failure is
\* closed by its with-block, holding the header only.
LegacyRecordOpen(s) ==
  /\ kind[s] = "legacy" /\ tpc[s] = "l_open"
  /\ \E outcome \in {"ok", "file_fails", "stream_fails"} :
       /\ files' = IF outcome = "file_fails" THEN files
                   ELSE [files EXCEPT ![PartPath(s)] =
                           [NewFile(s) EXCEPT !.closed = (outcome = "stream_fails")]]
       /\ streamOn' = [streamOn EXCEPT ![s] = (outcome = "ok")]
       /\ raising' = [raising EXCEPT ![s] = (outcome # "ok")]
       /\ tpc' = [tpc EXCEPT ![s] = IF outcome = "ok" THEN "l_loop" ELSE "l_finally"]
  /\ IF files' # files THEN NoteWrite(PartPath(s), RecordThread) ELSE UNCHANGED writtenBy
  /\ UNCHANGED <<mode, kind, orchVars, recording, stopEvent, q, natVars,
                 delivered, stopVars, histVars, natAux>>

\* legacy_recorder.py:57: q = queue.Queue(): maxsize is 0, and a maxsize of 0 or
\* less makes the queue infinite; put() blocks only on a full queue
maxsize == 0
QueueFull(qs) == maxsize > 0 /\ Len(qs) >= maxsize

\* legacy_recorder.py:59-62: callback: q.put(indata.copy())
LegacyCallback(s) ==
  /\ kind[s] = "legacy" /\ streamOn[s]
  /\ ~QueueFull(q[s])
  /\ delivered[s] < FrameCap
  /\ delivered' = [delivered EXCEPT ![s] = @ + 1]
  /\ q' = [q EXCEPT ![s] = Append(@, delivered[s] + 1)]
  /\ UNCHANGED <<mode, kind, orchVars, srcVars, streamOn, natVars, files,
                 stopVars, histVars, natAux, writtenBy>>

\* For comparison: a queue that hands out its newest buffer
q_get_newest(qs) == qs[Len(qs)]

\* legacy_recorder.py:57, 80: queue.Queue() is first in, first out: q.get()
\* returns the oldest buffer
q_get(qs) == Head(qs)

\* legacy_recorder.py:77-84: the stop event is not set, q.get() returns a buffer,
\* file.write(data)
LegacyRecordWrite(s) ==
  /\ kind[s] = "legacy" /\ tpc[s] = "l_loop"
  /\ ~stopEvent[s]
  /\ q[s] # <<>>
  /\ files' = [files EXCEPT ![PartPath(s)].data = Append(@, Frame(s, q_get(q[s])))]
  /\ q' = [q EXCEPT ![s] = Tail(@)]
  /\ NoteWrite(PartPath(s), RecordThread)
  /\ UNCHANGED <<mode, kind, orchVars, srcVars, streamOn, natVars, delivered,
                 stopVars, histVars, natAux>>

\* legacy_recorder.py:77: the loop test finds the stop event set; both with-blocks
\* exit: the stream is closed, then the file
LegacyRecordExit(s) ==
  /\ kind[s] = "legacy" /\ tpc[s] = "l_loop"
  /\ stopEvent[s]
  /\ streamOn' = [streamOn EXCEPT ![s] = FALSE]
  /\ files' = [files EXCEPT ![PartPath(s)].closed = TRUE]
  /\ tpc' = [tpc EXCEPT ![s] = "l_finally"]
  /\ NoteWrite(PartPath(s), RecordThread)
  /\ UNCHANGED <<mode, kind, orchVars, recording, stopEvent, raising, q, natVars,
                 delivered, stopVars, histVars, natAux>>

\* legacy_recorder.py:90-100: except Exception: raise; finally: _recording = False;
\* return filepath
LegacyRecordFinally(s) ==
  /\ kind[s] = "legacy" /\ tpc[s] = "l_finally"
  /\ recording' = [recording EXCEPT ![s] = FALSE]
  /\ tpc' = [tpc EXCEPT ![s] = IF raising[s] THEN "raised" ELSE "ret"]
  /\ NoteRecord(s)
  /\ UNCHANGED <<mode, kind, orchVars, stopEvent, raising, legVars, natVars,
                 delivered, files, stopVars, srcStops, stopsEntered, natAux, writtenBy>>

-----------------------------------------------------------------------------
(* Who runs a stop(): a thread calling stop() from outside (a stopper), or  *)
(* the thread of NativeRecorder.record() itself, whose finally-block calls  *)
(* self.stop().                                                             *)

ExecPc(e) == IF e \in Stoppers THEN spc[e] ELSE tpc[e]
ExecSrc(e) == IF e \in Stoppers THEN sidx[e] ELSE e
AtStopEntry(e) == IF e \in Stoppers THEN spc[e] = "call" ELSE tpc[e] = "n_fin"

ExecGoto(e, pc) ==
  IF e \in Stoppers
  THEN spc' = [spc EXCEPT ![e] = pc] /\ UNCHANGED <<tpc, sidx>>
  ELSE tpc' = [tpc EXCEPT ![e] = pc] /\ UNCHANGED <<spc, sidx>>

\* For comparison: a MultiRecorder.stop() that leaves its loop after the first
\* recorder
ExecReturnAfterFirst(e, raised) ==
  IF e \in Stoppers
  THEN /\ spc' = [spc EXCEPT ![e] = IF mode = "direct" THEN "idle" ELSE "m_flag"]
       /\ UNCHANGED <<tpc, sidx>>
  ELSE /\ tpc' = [tpc EXCEPT ![e] = IF raised THEN "raised" ELSE "ret"]
       /\ UNCHANGED <<spc, sidx>>

\* The stop() of recorders[ExecSrc(e)] ends, by return or by an exception.
\* multi_recorder.py:95-99: MultiRecorder.stop() catches the exception and goes
\* on with the next recorder, then line 102.
\* native_recorder.py:264-267: an exception of the stop() in the finally-block
\* leaves record(); otherwise record() returns filepath.
ExecReturn(e, raised) ==
  IF e \in Stoppers
  THEN /\ spc' = [spc EXCEPT ![e] =
                    IF mode = "direct" THEN "idle"
                    ELSE IF sidx[e] + 1 < NumSources THEN "call" ELSE "m_flag"]
       /\ sidx' = [sidx EXCEPT ![e] =
                    IF mode = "orch" /\ sidx[e] + 1 < NumSources THEN @ + 1 ELSE @]
       /\ UNCHANGED tpc
  ELSE /\ tpc' = [tpc EXCEPT ![e] = IF raised THEN "raised" ELSE "ret"]
       /\ UNCHANGED <<spc, sidx>>

CountSrcStop(e) ==
  srcStops' = [srcStops EXCEPT ![ExecSrc(e)] = IF e \in Stoppers THEN @ + 1 ELSE @]

\* For comparison: a stop() that does not test the flag
LegacyStopNoGuard(s) == TRUE

\* legacy_recorder.py:104: if self._recording:
LegacyStopGuard(s) == recording[s]

\* legacy_recorder.py:102-104: stop() is entered and tests the flag
LegacyStopCheck(t) ==
  /\ t \in Stoppers /\ spc[t] = "call" /\ kind[sidx[t]] = "legacy"
  /\ CountSrcStop(t)
  /\ IF LegacyStopGuard(sidx[t])
     THEN ExecGoto(t, "l_set") /\ UNCHANGED lastOp
     ELSE ExecReturn(t, FALSE) /\ NoteStop(sidx[t])
  /\ UNCHANGED <<mode, kind, orchVars, recording, stopEvent, raising, legVars,
                 natVars, delivered, files, stopCalls,
                 stopsEntered, natAux, writtenBy>>

\* legacy_recorder.py:106: self._stop_event.set()
LegacyStopSet(t) ==
  /\ t \in Stoppers /\ spc[t] = "l_set"
  /\ stopEvent' = [stopEvent EXCEPT ![sidx[t]] = TRUE]
  /\ ExecReturn(t, FALSE)
  /\ NoteStop(sidx[t])
  /\ UNCHANGED <<mode, kind, orchVars, recording, raising, legVars, natVars,
                 delivered, files, stopCalls, srcStops, stopsEntered, natAux, writtenBy>>

-----------------------------------------------------------------------------
(* NativeRecorder                                                          *)

\* native_recorder.py:216-231: _setup_writer(filepath), _setup_stream().
\* Either may raise; record() prints the exception (lines 260-263) and goes to
\* its finally-block. startWriting() creates the file.
NativeRecordSetup(s) ==
  /\ kind[s] = "native" /\ tpc[s] = "n_entry"
  /\ \E outcome \in {"ok", "writer_fails", "stream_fails"} :
       /\ writer' = [writer EXCEPT ![s] = IF outcome = "writer_fails" THEN "none" ELSE "writing"]
       /\ inputFinished' = [inputFinished EXCEPT ![s] = FALSE]
       /\ files' = IF outcome = "writer_fails"
                   THEN [files EXCEPT ![PartPath(s)] = NoFile]
                   ELSE [files EXCEPT ![PartPath(s)] = NewFile(s)]
       /\ stream' = [stream EXCEPT ![s] = IF outcome = "ok" THEN "ready" ELSE "none"]
       /\ tpc' = [tpc EXCEPT ![s] = IF outcome = "ok" THEN "n_flag" ELSE "n_fin"]
  /\ IF files'[PartPath(s)].exists THEN NoteWrite(PartPath(s), RecordThread) ELSE UNCHANGED writtenBy
  /\ UNCHANGED <<mode, kind, orchVars, recording, stopEvent, raising, legVars, cbpc,
                 delivered, stopVars, histVars, natAux>>

\* native_recorder.py:234: self.is_writing = True
NativeRecordSetFlag(s) ==
  /\ kind[s] = "native" /\ tpc[s] = "n_flag"
  /\ recording' = [recording EXCEPT ![s] = TRUE]
  /\ tpc' = [tpc EXCEPT ![s] = "n_start"]
  /\ NoteRecord(s)
  /\ UNCHANGED <<mode, kind, orchVars, stopEvent, raising, legVars, natVars,
                 delivered, files, stopVars, srcStops, stopsEntered, natAux, writtenBy>>

\* native_recorder.py:237-244: startCaptureWithCompletionHandler_, wait(timeout=5).
\* A start error is printed by the handler and record() goes on.
NativeRecordStart(s) ==
  /\ kind[s] = "native" /\ tpc[s] = "n_start"
  /\ \E started \in BOOLEAN :
       stream' = [stream EXCEPT ![s] = IF started /\ @ = "ready" THEN "capturing" ELSE @]
  /\ tpc' = [tpc EXCEPT ![s] = "n_clear"]
  /\ UNCHANGED <<mode, kind, orchVars, recording, stopEvent, raising, legVars,
                 writer, inputFinished, cbpc, delivered, files, stopVars, histVars, natAux, writtenBy>>

\* native_recorder.py:249: self._stop_event.clear()
NativeRecordClear(s) ==
  /\ kind[s] = "native" /\ tpc[s] = "n_clear"
  /\ stopEvent' = [stopEvent EXCEPT ![s] = FALSE]
  /\ tpc' = [tpc EXCEPT ![s] = "n_loop"]
  /\ NoteRecord(s)
  /\ UNCHANGED <<mode, kind, orchVars, recording, raising, legVars, natVars,
                 delivered, files, stopVars, srcStops, stopsEntered, natAux, writtenBy>>

\* native_recorder.py:250: the loop test finds the stop event set; finally: stop()
NativeRecordExit(s) ==
  /\ kind[s] = "native" /\ tpc[s] = "n_loop"
  /\ stopEvent[s]
  /\ tpc' = [tpc EXCEPT ![s] = "n_fin"]
  /\ UNCHANGED <<mode, kind, orchVars, recording, stopEvent, raising, legVars,
                 natVars, delivered, files, stopVars, histVars, natAux, writtenBy>>

\* The history of a NativeRecorder used alone. stopLog[e]: the platform calls
\* that thread e made in its stop(), each with the way it ended.
LogStop(e, op) ==
  stopLog' = IF mode = "direct" THEN [stopLog EXCEPT ![e] = Append(@, op)] ELSE stopLog

\* cbHist[s]: the number of the first buffer that found is_writing set, the
\* number of the buffer whose timestamp the session was started at, how often
\* the session was started, whether a buffer was appended before the session
\* was started, and whether appendSampleBuffer_ was called on an input already
\* marked as finished
NoCallbackHistory ==
  [firstActive |-> 0, sessionAt |-> 0, sessionStarts |-> 0,
   appendBeforeSession |-> FALSE, lateAppend |-> FALSE]
NoteCallback(s, h) ==
  cbHist' = IF mode = "direct" THEN [cbHist EXCEPT ![s] = h] ELSE cbHist

\* MultiRecorder.record() reads of a part file only what the delegate has
\* appended: there the calls of the delegate after its test of is_writing are
\* one step.
CallbackInOneStep == mode = "orch"

\* native_recorder.py:47-51: the delegate callback reads recorder.is_writing.
\* The sample handler queue delivers one buffer at a time.
NativeCallbackCheck(s) ==
  /\ kind[s] = "native" /\ stream[s] = "capturing" /\ cbpc[s] = "idle"
  /\ delivered[s] < FrameCap
  /\ delivered' = [delivered EXCEPT ![s] = @ + 1]
  /\ cbpc' = [cbpc EXCEPT ![s] = IF ~recording[s] THEN "idle"
                                 ELSE IF CallbackInOneStep THEN "append" ELSE "session"]
  /\ IF recording[s] /\ cbHist[s].firstActive = 0
     THEN NoteCallback(s, [cbHist[s] EXCEPT !.firstActive = delivered[s] + 1])
     ELSE UNCHANGED cbHist
  /\ UNCHANGED <<mode, kind, orchVars, srcVars, legVars, writer, inputFinished,
                 stream, files, stopVars, histVars, sessionStarted, stopLog, writtenBy>>

\* For comparison: a delegate without the one-shot flag
NeedsSessionStartAlways(s) == TRUE

\* native_recorder.py:53: if not self.session_started:
NeedsSessionStart(s) == ~sessionStarted[s]

\* startSessionAtSourceTime_ is accepted by a writer that is writing; on any
\* other writer it raises and the callback ends there
SessionStartOk(s) == writer[s] = "writing"

\* native_recorder.py:59: self.writer_input.isReadyForMoreMediaData(): an input
\* marked as finished, or of a writer that no longer writes, takes no more data
isReadyForMoreMediaData(s) == writer[s] = "writing" /\ ~inputFinished[s]

\* native_recorder.py:53-57: startSessionAtSourceTime_(timestamp of this buffer),
\* session_started = True
NativeCallbackSession(s) ==
  /\ kind[s] = "native" /\ cbpc[s] = "session"
  /\ IF ~NeedsSessionStart(s)
     THEN /\ cbpc' = [cbpc EXCEPT ![s] = "ready"]
          /\ UNCHANGED <<sessionStarted, cbHist>>
     ELSE IF SessionStartOk(s)
     THEN /\ cbpc' = [cbpc EXCEPT ![s] = "ready"]
          /\ sessionStarted' = [sessionStarted EXCEPT ![s] = TRUE]
          /\ NoteCallback(s, [cbHist[s] EXCEPT !.sessionAt = delivered[s],
                                                !.sessionStarts = @ + 1])
     ELSE /\ cbpc' = [cbpc EXCEPT ![s] = "idle"]
          /\ UNCHANGED <<sessionStarted, cbHist>>
  /\ UNCHANGED <<mode, kind, orchVars, srcVars, legVars, writer, inputFinished,
                 stream, delivered, files, stopVars, histVars, stopLog, writtenBy>>

\* native_recorder.py:59: if self.writer_input.isReadyForMoreMediaData():
NativeCallbackReady(s) ==
  /\ kind[s] = "native" /\ cbpc[s] = "ready"
  /\ cbpc' = [cbpc EXCEPT ![s] = IF isReadyForMoreMediaData(s) THEN "append" ELSE "idle"]
  /\ UNCHANGED <<mode, kind, orchVars, srcVars, legVars, writer, inputFinished,
                 stream, delivered, files, stopVars, histVars, natAux, writtenBy>>

\* native_recorder.py:60-66: appendSampleBuffer_(sampleBuffer); an input that
\* takes no more data leaves the file as it is (the failure is printed).
\* In one step (CallbackInOneStep) this is lines 53-66; session_started is
\* read by the next callback only, and with the one buffer of FrameCap there
\* is none.
NativeCallbackAppend(s) ==
  /\ kind[s] = "native" /\ cbpc[s] = "append"
  /\ cbpc' = [cbpc EXCEPT ![s] = "idle"]
  /\ files' = IF isReadyForMoreMediaData(s)
              THEN [files EXCEPT ![PartPath(s)].data = Append(@, Frame(s, delivered[s]))]
              ELSE files
  /\ NoteCallback(s, [cbHist[s] EXCEPT
                        !.appendBeforeSession = @ \/ ~sessionStarted[s],
                        !.lateAppend = @ \/ inputFinished[s]])
  /\ IF isReadyForMoreMediaData(s) THEN NoteWrite(PartPath(s), CallbackThread) ELSE UNCHANGED writtenBy
  /\ UNCHANGED <<mode, kind, orchVars, srcVars, legVars, writer, inputFinished,
                 stream, delivered, stopVars, histVars, sessionStarted, stopLog>>

\* native_recorder.py:271: if not self.is_writing: return
NativeStopGuard(s) == recording[s]

\* For comparison: a stop() that marks the input as finished before it asks the
\* stream to stop
StopStepAfterMarkFirst(pc) ==
  CASE pc = "ns_flag" -> "ns_mark"
    [] pc = "ns_mark" -> "ns_stopcap"
    [] pc = "ns_stopcap" -> "ns_finish"
    [] OTHER -> "return"

\* native_recorder.py:275-305: the order of the steps of stop(): the flag and the
\* event, the stream (278-285), the input (287-289), the writer (291-301)
StopStepAfter(pc) ==
  CASE pc = "ns_flag" -> "ns_stopcap"
    [] pc = "ns_stopcap" -> "ns_mark"
    [] pc = "ns_mark" -> "ns_finish"
    [] OTHER -> "return"

\* For comparison: waits without a timeout, which never end when the platform
\* does not answer
AfterWaitForever(pc, outcome) == IF outcome = "timeout" THEN "ns_hung" ELSE StopStepAfter(pc)

\* native_recorder.py:285, 298: finished_stop.wait(timeout=5),
\* finished_writer.wait(timeout=10): stop() goes on when the wait has ended,
\* by the answer of the platform or by the timeout
AfterWait(pc, outcome) == StopStepAfter(pc)

\* native_recorder.py:269-272: stop() is entered and tests the flag
NativeStopCheck(e) ==
  /\ AtStopEntry(e) /\ kind[ExecSrc(e)] = "native"
  /\ CountSrcStop(e)
  /\ IF NativeStopGuard(ExecSrc(e))
     THEN ExecGoto(e, "ns_flag") /\ UNCHANGED lastOp
     ELSE ExecReturn(e, FALSE) /\ NoteStop(ExecSrc(e))
  /\ UNCHANGED <<mode, kind, orchVars, recording, stopEvent, raising, legVars,
                 natVars, delivered, files, stopCalls,
                 stopsEntered, natAux, writtenBy>>

\* native_recorder.py:275-276: self.is_writing = False; self._stop_event.set()
NativeStopFlag(e) ==
  /\ ExecPc(e) = "ns_flag"
  /\ recording' = [recording EXCEPT ![ExecSrc(e)] = FALSE]
  /\ stopEvent' = [stopEvent EXCEPT ![ExecSrc(e)] = TRUE]
  /\ ExecGoto(e, StopStepAfter("ns_flag"))
  /\ UNCHANGED <<mode, kind, orchVars, raising, legVars, natVars, delivered, files,
                 stopCalls, histVars, natAux, writtenBy>>

\* native_recorder.py:278-285: stopCaptureWithCompletionHandler_, wait(timeout=5):
\* the stream acknowledges, or the wait times out, or the platform call raises
NativeStopCapture(e) ==
  /\ ExecPc(e) = "ns_stopcap"
  /\ \E outcome \in {"ack", "timeout", "raises"} :
       /\ stream' = [stream EXCEPT ![ExecSrc(e)] = IF outcome = "ack" THEN "stopped" ELSE @]
       /\ LogStop(e, IF outcome = "ack" THEN "stop_ack"
                      ELSE IF outcome = "timeout" THEN "stop_timeout"
                      ELSE "stop_raises")
       /\ IF outcome = "raises"
          THEN ExecReturn(e, TRUE) /\ NoteStop(ExecSrc(e))
          ELSE ExecGoto(e, AfterWait("ns_stopcap", outcome)) /\ UNCHANGED lastOp
  /\ UNCHANGED <<mode, kind, orchVars, recording, stopEvent, raising, legVars,
                 writer, inputFinished, cbpc, delivered, files, stopCalls, srcStops,
                 stopsEntered, sessionStarted, cbHist, writtenBy>>

\* native_recorder.py:287-289: self.writer_input.markAsFinished()
NativeStopMark(e) ==
  /\ ExecPc(e) = "ns_mark"
  /\ inputFinished' = [inputFinished EXCEPT ![ExecSrc(e)] = TRUE]
  /\ LogStop(e, "mark")
  /\ ExecGoto(e, StopStepAfter("ns_mark"))
  /\ UNCHANGED <<mode, kind, orchVars, recording, stopEvent, raising, legVars,
                 writer, stream, cbpc, delivered, files, stopCalls, lastOp,
                 srcStops, stopsEntered, sessionStarted, cbHist, writtenBy>>

\* native_recorder.py:291-305: finishWritingWithCompletionHandler_, wait(timeout=10):
\* the writer completes, or fails (status 3, printed), or is still finishing
\* when the wait has elapsed; stop() returns in every case
NativeStopFinish(e) ==
  /\ ExecPc(e) = "ns_finish"
  /\ \E outcome \in {"done", "timeout", "failed"} :
       /\ writer' = [writer EXCEPT ![ExecSrc(e)] =
                       IF outcome = "done" THEN "completed"
                       ELSE IF outcome = "failed" THEN "failed" ELSE "finishing"]
       /\ files' = [files EXCEPT ![PartPath(ExecSrc(e))].closed = @ \/ (outcome = "done")]
       /\ LogStop(e, IF outcome = "done" THEN "finish_done"
                      ELSE IF outcome = "timeout" THEN "finish_timeout"
                      ELSE "finish_failed")
       /\ IF AfterWait("ns_finish", outcome) = "return"
          THEN ExecReturn(e, FALSE) /\ NoteStop(ExecSrc(e))
          ELSE ExecGoto(e, AfterWait("ns_finish", outcome)) /\ UNCHANGED lastOp
  /\ NoteWrite(PartPath(ExecSrc(e)), IF e \in Stoppers THEN StopThread ELSE RecordThread)
  /\ UNCHANGED <<mode, kind, orchVars, recording, stopEvent, raising, legVars,
                 inputFinished, stream, cbpc, delivered, stopCalls, srcStops,
                 stopsEntered, sessionStarted, cbHist>>

-----------------------------------------------------------------------------
(* MultiRecorder                                                           *)

EntryPc(s) == IF kind[s] = "native" THEN "n_entry" ELSE "l_entry"

\* multi_recorder.py:15: self.recorders, as the set of its indices
Recorders == {s \in Sources : kind[s] # "none"}

\* multi_recorder.py:14-20: MultiRecorder.__init__(recorders) stores the list and
\* sets _is_recording = False, output_paths = []; it accepts every list
MultiRecorderInit ==
  /\ mode = "orch" /\ opc = "o_new"
  /\ isRecording' = FALSE
  /\ outputPaths' = <<>>
  /\ opc' = "o_idle"
  /\ UNCHANGED <<mode, kind, oidx, validPaths, result, mergeCalls, filterSeen, joinedDead,
                 mergeRaised, removeFailed, srcVars, legVars, natVars, delivered, files,
                 stopVars, histVars, natAux, writtenBy>>

\* multi_recorder.py:27-37: if not self.recorders: raise ValueError;
\* self._is_recording = True; self.output_paths = []
MultiRecordBegin ==
  /\ mode = "orch" /\ opc = "o_idle"
  /\ IF Recorders = {}
     THEN opc' = "o_raised" /\ UNCHANGED <<isRecording, outputPaths, oidx>>
     ELSE /\ isRecording' = TRUE
          /\ outputPaths' = <<>>
          /\ opc' = "o_spawn"
          /\ oidx' = 0
  /\ UNCHANGED <<mode, kind, validPaths, result, mergeCalls, filterSeen, joinedDead, mergeRaised, removeFailed,
                 srcVars, legVars, natVars, delivered, files, stopVars, histVars, natAux, writtenBy>>

\* multi_recorder.py:46-49: t = threading.Thread(target=record_stream); t.start()
MultiRecordSpawn ==
  /\ opc = "o_spawn"
  /\ tpc' = [tpc EXCEPT ![oidx] = EntryPc(oidx)]
  /\ oidx' = IF oidx + 1 < NumSources THEN oidx + 1 ELSE 0
  /\ opc' = IF oidx + 1 < NumSources THEN "o_spawn" ELSE "o_wait"
  /\ UNCHANGED <<mode, kind, isRecording, outputPaths, validPaths, result, mergeCalls,
                 filterSeen, joinedDead, mergeRaised, removeFailed, recording, stopEvent, raising, legVars,
                 natVars, delivered, files, stopVars, histVars, natAux, writtenBy>>

\* For comparison: an append in two steps, which writes the list it read before
\* another thread appended: the list as read by the first thread to end
list_append_stale(xs, x) == IF xs = <<>> THEN <<x>> ELSE xs

\* multi_recorder.py:43: list.append is one step of the interpreter: no other
\* thread runs between its read and its write of the list
list_append(xs, x) == Append(xs, x)

\* multi_recorder.py:43: self.output_paths.append(path), then the thread ends
record_stream(s) ==
  /\ mode = "orch" /\ tpc[s] = "ret"
  /\ outputPaths' = list_append(outputPaths, PartPath(s))
  /\ tpc' = [tpc EXCEPT ![s] = "dead"]
  /\ UNCHANGED <<mode, kind, isRecording, opc, oidx, validPaths, result, mergeCalls,
                 filterSeen, joinedDead, mergeRaised, removeFailed, recording, stopEvent, raising, legVars,
                 natVars, delivered, files, stopVars, histVars, natAux, writtenBy>>

\* For comparison: a wait loop that also ends when every source thread has ended
WaitLoopExitsOrThreadsEnd == ~isRecording \/ \A s \in Sources : ~Alive(s)

\* For comparison: a wait loop that ends only once every source thread has ended too
WaitLoopExitsWhenThreadsEnd == ~isRecording /\ \A s \in Sources : ~Alive(s)

\* multi_recorder.py:54-55: while self._is_recording: time.sleep(0.1)
WaitLoopExits == ~isRecording

MultiRecordWait ==
  /\ opc = "o_wait"
  /\ WaitLoopExits
  /\ opc' = "o_join"
  /\ oidx' = 0
  /\ UNCHANGED <<mode, kind, isRecording, outputPaths, validPaths, result, mergeCalls,
                 filterSeen, joinedDead, mergeRaised, removeFailed, srcVars, legVars, natVars, delivered, files,
                 stopVars, histVars, natAux, writtenBy>>

\* multi_recorder.py:58-59: t.join(timeout=10) returns when the thread has ended
\* or when the timeout has passed
MultiRecordJoin ==
  /\ opc = "o_join"
  /\ joinedDead' = IF Alive(oidx) THEN joinedDead ELSE joinedDead \cup {oidx}
  /\ oidx' = IF oidx + 1 < NumSources THEN oidx + 1 ELSE 0
  /\ opc' = IF oidx + 1 < NumSources THEN "o_join" ELSE "o_filter"
  /\ UNCHANGED <<mode, kind, isRecording, outputPaths, validPaths, result, mergeCalls,
                 filterSeen, mergeRaised, removeFailed, srcVars, legVars, natVars,
                 delivered, files, stopVars, histVars, natAux, writtenBy>>

\* For comparison: a filter that lets a file of the header alone pass
ValidPathHeaderOnly(p) == files[p].exists /\ FileSize(files[p]) >= HeaderSize

\* multi_recorder.py:67: os.path.exists(p) and os.path.getsize(p) > 44
ValidPath(p) == files[p].exists /\ FileSize(files[p]) > HeaderSize

\* multi_recorder.py:67-70: valid_paths = [...]; if not valid_paths: return ""
MultiRecordFilter ==
  /\ opc = "o_filter"
  /\ validPaths' = SelectSeq(outputPaths, ValidPath)
  /\ filterSeen' = [i \in 1..Len(outputPaths) |->
                      <<outputPaths[i], files[outputPaths[i]].exists,
                        FileSize(files[outputPaths[i]])>>]
  /\ IF SelectSeq(outputPaths, ValidPath) = <<>>
     THEN opc' = "o_done" /\ result' = EmptyResult
     ELSE opc' = "o_merge" /\ UNCHANGED result
  /\ UNCHANGED <<mode, kind, isRecording, outputPaths, oidx, mergeCalls, joinedDead, mergeRaised, removeFailed,
                 srcVars, legVars, natVars, delivered, files, stopVars, histVars, natAux, writtenBy>>

-----------------------------------------------------------------------------
(* merge_audio_files. A sample of a file is an integer of SampleBits bits.   *)
(* sf.read gives it as a float, sample / FullScale; the floats of the merge  *)
(* are exact in the model, as whole multiples of 1 / Unit or as fractions.   *)
(* sf.write to PCM_16 multiplies by FullScale, rounds to the nearest integer *)
(* (ties to even) and clips to the range of a sample.                        *)

FullScale == 2 ^ (SampleBits - 1)
MinSample == -FullScale
MaxSample == FullScale - 1

\* the float 1.0, counted in the unit of the mixed values: the mean of the
\* channels of a frame of one or two channels is a whole number of this unit
Unit == 2 * FullScale

Abs(x) == IF x < 0 THEN -x ELSE x

\* the integer nearest to n / d (d > 0), ties to the even one
RoundHalfEven(n, d) ==
  LET k == n \div d
      r == n % d
  IN IF 2 * r < d THEN k
     ELSE IF 2 * r > d THEN k + 1
     ELSE IF k % 2 = 0 THEN k ELSE k + 1

Clip(v) == IF v > MaxSample THEN MaxSample ELSE IF v < MinSample THEN MinSample ELSE v

\* sf.write(output_file, data, samplerate): the float n / d as a PCM_16 sample
sf_write_sample(n, d) == Clip(RoundHalfEven(n * FullScale, d))

\* sf.read(f): the sample v as a float, in multiples of 1 / Unit
sf_read_sample(v) == v * (Unit \div FullScale)

RECURSIVE SumSeq(_)
SumSeq(xs) == IF xs = <<>> THEN 0 ELSE Head(xs) + SumSeq(Tail(xs))

\* audio_utils.py:25, 35-37: data of one input; np.mean(data, axis=1) when the
\* input has more than one channel
Mono(p) ==
  [i \in 1..Len(files[p].data) |->
     IF files[p].channels > 1
     THEN SumSeq([c \in 1..files[p].channels |-> sf_read_sample(files[p].data[i][c])])
            \div files[p].channels
     ELSE sf_read_sample(files[p].data[i][1])]

\* audio_utils.py:42-48: the inputs are padded with zeros to the longest and
\* summed sample by sample
RECURSIVE SumAt(_, _)
SumAt(inputs, i) ==
  IF inputs = <<>> THEN 0
  ELSE (IF i <= Len(files[Head(inputs)].data) THEN Mono(Head(inputs))[i] ELSE 0)
       + SumAt(Tail(inputs), i)

\* For comparison: an output as long as the first input
MaxLenOfFirst(inputs) == IF inputs = <<>> THEN 0 ELSE Len(files[Head(inputs)].data)

\* audio_utils.py:40: max_len = max(max_len, len(data))
RECURSIVE MaxLen(_)
MaxLen(inputs) ==
  IF inputs = <<>> THEN 0
  ELSE LET n == Len(files[Head(inputs)].data)
           m == MaxLen(Tail(inputs))
       IN IF n > m THEN n ELSE m

\* audio_utils.py:43-48: mixed_audio
Mixed(inputs) == [i \in 1..MaxLen(inputs) |-> SumAt(inputs, i)]

\* audio_utils.py:53: max_val = np.max(np.abs(mixed_audio))
RECURSIVE Peak(_)
Peak(mixed) ==
  IF mixed = <<>> THEN 0
  ELSE LET p == Peak(Tail(mixed))
       IN IF Abs(Head(mixed)) > p THEN Abs(Head(mixed)) ELSE p

\* For comparison: a mix that is always divided by its peak
NormalizeAlways(mixed) ==
  [i \in 1..Len(mixed) |-> <<mixed[i], IF Peak(mixed) > 0 THEN Peak(mixed) ELSE Unit>>]

\* audio_utils.py:52-55: if max_val > 1.0: mixed_audio = mixed_audio / max_val.
\* The floats of the result, each as a fraction <<n, d>>.
Normalize(mixed) ==
  IF Peak(mixed) > Unit
  THEN [i \in 1..Len(mixed) |-> <<mixed[i], Peak(mixed)>>]
  ELSE [i \in 1..Len(mixed) |-> <<mixed[i], Unit>>]

\* audio_utils.py:11-12: no input raises ValueError; line 53: np.max of an empty
\* array raises ValueError (several inputs, none of them with a frame)
MergeRaises(inputs) ==
  \/ inputs = <<>>
  \/ Len(inputs) > 1 /\ MaxLen(inputs) = 0

\* For comparison: a mix that leaves out the last input and copies no input
merge_audio_files_SkipLast(inputs) ==
  LET rest == SubSeq(inputs, 1, Len(inputs) - 1)
      out == Normalize(Mixed(rest))
  IN [exists |-> TRUE, closed |-> TRUE, channels |-> 1,
      rate |-> files[inputs[1]].rate,
      data |-> [i \in 1..Len(out) |-> <<sf_write_sample(out[i][1], out[i][2])>>]]

\* For comparison: a single input is mixed down like several inputs
merge_audio_files_AlwaysMix(inputs) ==
  LET out == Normalize(Mixed(inputs))
  IN [exists |-> TRUE, closed |-> TRUE, channels |-> 1,
      rate |-> files[inputs[1]].rate,
      data |-> [i \in 1..Len(out) |-> <<sf_write_sample(out[i][1], out[i][2])>>]]

\* audio_utils.py:14-18: a single input is read and written again as it is;
\* 20-58: several inputs are made mono, padded, summed, normalized and written
\* as one channel at the sample rate of the first input.
\* The file that sf.write leaves at output_file.
merge_audio_files(inputs) ==
  IF Len(inputs) = 1
  THEN LET f == files[inputs[1]]
       IN [exists |-> TRUE, closed |-> TRUE, channels |-> f.channels, rate |-> f.rate,
           data |-> [i \in 1..Len(f.data) |->
                       [c \in 1..f.channels |->
                          sf_write_sample(sf_read_sample(f.data[i][c]), Unit)]]]
  ELSE LET out == Normalize(Mixed(inputs))
       IN [exists |-> TRUE, closed |-> TRUE, channels |-> 1,
           rate |-> files[inputs[1]].rate,
           data |-> [i \in 1..Len(out) |-> <<sf_write_sample(out[i][1], out[i][2])>>]]

-----------------------------------------------------------------------------

\* multi_recorder.py:85: return self.output_paths[0] if self.output_paths else ""
FallbackResult == IF outputPaths # <<>> THEN outputPaths[1] ELSE EmptyResult

\* multi_recorder.py:72, 83-85: final_path = merge_audio_files(valid_paths, merged_path);
\* an exception of the merge is caught and the fallback returned
MultiRecordMerge ==
  /\ opc = "o_merge"
  /\ mergeCalls' = Append(mergeCalls, validPaths)
  /\ \E raises \in BOOLEAN :
       /\ MergeRaises(validPaths) => raises
       /\ mergeRaised' = raises
       /\ IF raises
          THEN /\ opc' = "o_done"
               /\ result' = FallbackResult
               /\ UNCHANGED files
          ELSE /\ opc' = "o_cleanup"
               /\ files' = [files EXCEPT ![MergedPath] = merge_audio_files(validPaths)]
               /\ UNCHANGED result
  /\ IF opc' = "o_cleanup" THEN NoteWrite(MergedPath, OrchestratorThread) ELSE UNCHANGED writtenBy
  /\ UNCHANGED <<mode, kind, isRecording, outputPaths, oidx, validPaths, filterSeen,
                 joinedDead, removeFailed, srcVars, legVars, natVars, delivered, stopVars, histVars, natAux>>

\* multi_recorder.py:75-76: the files the clean-up loop tries to remove
CleanupTargets == {outputPaths[i] : i \in 1..Len(outputPaths)} \ {MergedPath}

\* multi_recorder.py:75-82: os.remove(p) for each collected path (a failure is
\* printed); return final_path
MultiRecordCleanup ==
  /\ opc = "o_cleanup"
  /\ \E failed \in SUBSET {p \in CleanupTargets : files[p].exists} :
       /\ files' = [p \in Paths |->
                      IF p \in CleanupTargets /\ p \notin failed THEN NoFile ELSE files[p]]
       /\ removeFailed' = failed
  /\ result' = MergedPath
  /\ opc' = "o_done"
  /\ UNCHANGED <<mode, kind, isRecording, outputPaths, oidx, validPaths, mergeCalls,
                 filterSeen, joinedDead, mergeRaised, srcVars, legVars, natVars, delivered,
                 stopVars, histVars, natAux, writtenBy>>

\* multi_recorder.py:89-90: if not self._is_recording: return
StopGuard == isRecording

\* multi_recorder.py:87-95: a thread calls MultiRecorder.stop()
MultiStopCall(t) ==
  /\ mode = "orch" /\ spc[t] = "idle"
  /\ IF StopGuard
     THEN /\ spc' = [spc EXCEPT ![t] = "call"]
          /\ sidx' = [sidx EXCEPT ![t] = 0]
          /\ stopsEntered' = stopsEntered + 1
     ELSE UNCHANGED <<spc, sidx, stopsEntered>>
  /\ UNCHANGED <<mode, kind, orchVars, srcVars, legVars, natVars, delivered, files,
                 stopCalls, srcStops, lastOp, natAux, writtenBy>>

\* multi_recorder.py:102: self._is_recording = False
MultiStopFlag(t) ==
  /\ spc[t] = "m_flag"
  /\ isRecording' = FALSE
  /\ spc' = [spc EXCEPT ![t] = "idle"]
  /\ UNCHANGED <<mode, kind, outputPaths, opc, oidx, validPaths, result, mergeCalls,
                 filterSeen, joinedDead, mergeRaised, removeFailed, srcVars, legVars, natVars, delivered, files,
                 sidx, stopCalls, histVars, natAux, writtenBy>>

-----------------------------------------------------------------------------
(* A capture source used alone: record() on one thread, stop() on others     *)

\* main.py:121: recorder_instance.record(output_dir=..., filename=...)
DirectRecord(s) ==
  /\ mode = "direct" /\ kind[s] # "none" /\ tpc[s] = "idle"
  /\ tpc' = [tpc EXCEPT ![s] = EntryPc(s)]
  /\ UNCHANGED <<mode, kind, orchVars, recording, stopEvent, raising, legVars,
                 natVars, delivered, files, stopVars, histVars, natAux, writtenBy>>

\* main.py:21: recorder_instance.stop()
DirectStop(t, s) ==
  /\ mode = "direct" /\ kind[s] # "none" /\ spc[t] = "idle"
  /\ stopCalls < MaxStopCalls
  /\ stopCalls' = stopCalls + 1
  /\ spc' = [spc EXCEPT ![t] = "call"]
  /\ sidx' = [sidx EXCEPT ![t] = s]
  /\ stopLog' = [stopLog EXCEPT ![t] = <<>>]
  /\ UNCHANGED <<mode, kind, orchVars, srcVars, legVars, natVars, delivered, files,
                 histVars, sessionStarted, cbHist, writtenBy>>

-----------------------------------------------------------------------------

\* recorder_factory.py:27-31 builds MultiRecorder([native, legacy]); lines 77-82
\* fall back to a second LegacyRecorder when NativeRecorder cannot be built
DualKinds == {[s \in Sources |-> IF s = 0 THEN "native" ELSE "legacy"],
              [s \in Sources |-> "legacy"]}

\* recorder_factory.py:19-22: one recorder, "legacy" or "native"
SingleKinds == {[s \in Sources |-> IF s = 0 THEN k ELSE "none"] : k \in {"native", "legacy"}}

InitFields ==
  /\ isRecording = FALSE
  /\ outputPaths = <<>>
  /\ oidx = 0
  /\ result = EmptyResult
  /\ mergeCalls = <<>>
  /\ filterSeen = <<>>
  /\ joinedDead = {}
  /\ mergeRaised = FALSE
  /\ removeFailed = {}
  /\ tpc = [s \in Sources |-> "idle"]
  /\ sessionStarted = [s \in Sources |-> FALSE]
  /\ stopLog = [e \in Stoppers \cup Sources |-> <<>>]
  /\ cbHist = [s \in Sources |-> NoCallbackHistory]
  /\ writtenBy = [p \in Paths |-> {}]
  /\ recording = [s \in Sources |-> FALSE]
  /\ stopEvent = [s \in Sources |-> FALSE]
  /\ raising = [s \in Sources |-> FALSE]
  /\ q = [s \in Sources |-> <<>>]
  /\ streamOn = [s \in Sources |-> FALSE]
  /\ delivered = [s \in Sources |-> 0]
  /\ writer = [s \in Sources |-> "none"]
  /\ inputFinished = [s \in Sources |-> FALSE]
  /\ stream = [s \in Sources |-> "none"]
  /\ cbpc = [s \in Sources |-> "idle"]
  /\ spc = [t \in Stoppers |-> "idle"]
  /\ sidx = [t \in Stoppers |-> 0]
  /\ stopCalls = 0
  /\ stopsEntered = 0
  /\ srcStops = [s \in Sources |-> 0]
  /\ lastOp = [s \in Sources |-> "record"]

InitCommon ==
  /\ InitFields
  /\ validPaths = <<>>
  /\ files = [p \in Paths |-> NoFile]

\* multi_recorder.py:14-20, legacy_recorder.py:32-33, native_recorder.py:93-99
Init ==
  /\ mode = "orch"
  /\ kind \in DualKinds
  /\ opc = "o_idle"
  /\ InitCommon

\* recorder_factory.py:31 passes two recorders; MultiRecorder.__init__ takes any
\* list (multi_recorder.py:14-15), the empty one included
NoKinds == [s \in Sources |-> "none"]

\* the state before MultiRecorder(recorders) is evaluated
ConstructInit ==
  /\ mode = "orch"
  /\ kind \in DualKinds \cup {NoKinds}
  /\ opc = "o_new"
  /\ InitCommon

SourceInit ==
  /\ mode = "direct"
  /\ kind \in SingleKinds
  /\ opc = "none"
  /\ InitCommon

SourceStep(s) ==
  \/ LegacyRecordSetFlag(s)
  \/ LegacyRecordClear(s)
  \/ LegacyRecordOpen(s)
  \/ LegacyCallback(s)
  \/ LegacyRecordWrite(s)
  \/ LegacyRecordExit(s)
  \/ LegacyRecordFinally(s)
  \/ NativeRecordSetup(s)
  \/ NativeRecordSetFlag(s)
  \/ NativeRecordStart(s)
  \/ NativeRecordClear(s)
  \/ NativeRecordExit(s)
  \/ NativeCallbackCheck(s)
  \/ NativeCallbackAppend(s)

\* the steps of the delegate callback between its test of is_writing and its
\* append, followed one by one when a source is used alone
DelegateStep(s) ==
  \/ NativeCallbackSession(s)
  \/ NativeCallbackReady(s)

StopStep(e) ==
  \/ LegacyStopCheck(e)
  \/ LegacyStopSet(e)
  \/ NativeStopCheck(e)
  \/ NativeStopFlag(e)
  \/ NativeStopCapture(e)
  \/ NativeStopMark(e)
  \/ NativeStopFinish(e)

MultiRecordStep ==
  \/ MultiRecordBegin
  \/ MultiRecordSpawn
  \/ MultiRecordWait
  \/ MultiRecordJoin
  \/ MultiRecordFilter
  \/ MultiRecordMerge
  \/ MultiRecordCleanup

Next ==
  \/ MultiRecordStep
  \/ \E s \in Sources : SourceStep(s) \/ record_stream(s)
  \/ \E e \in Stoppers \cup Sources : StopStep(e)
  \/ \E t \in Stoppers : MultiStopCall(t) \/ MultiStopFlag(t)

SourceNext ==
  \/ \E s \in Sources : DirectRecord(s) \/ SourceStep(s) \/ DelegateStep(s)
  \/ \E e \in Stoppers \cup Sources : StopStep(e)
  \/ \E t \in Stoppers, s \in Sources : DirectStop(t, s)

Spec == Init /\ [][Next]_vars

-----------------------------------------------------------------------------
(* merge_audio_files called on its own (MergeSpec): the input files are      *)
(* 16-bit PCM files of one or two channels                                   *)

\* the extremes, silence and half of full scale
SampleValues == {MinSample, 0, FullScale \div 2, MaxSample}
Rates == {SampleRate, 44100}

\* the sequences over S of a length up to n
RECURSIVE SeqsUpTo(_, _)
SeqsUpTo(S, n) ==
  IF n = 0 THEN {<<>>}
  ELSE LET shorter == SeqsUpTo(S, n - 1)
       IN shorter \cup {Append(x, v) : x \in {y \in shorter : Len(y) = n - 1}, v \in S}

Frames(ch) == [1..ch -> SampleValues]

InputFiles ==
  {[exists |-> TRUE, closed |-> TRUE, channels |-> 1, rate |-> r, data |-> d] :
     r \in Rates, d \in SeqsUpTo(Frames(1), MaxInputLen)}
  \cup
  {[exists |-> TRUE, closed |-> TRUE, channels |-> 2, rate |-> r, data |-> d] :
     r \in Rates, d \in SeqsUpTo(Frames(2), MaxInputLen - 1)}

\* the lists of input_files: none, one or two files
InputLists == {<<>>, <<PartPath(0)>>, <<PartPath(0), PartPath(1)>>}

MergeInit ==
  /\ mode = "merge"
  /\ kind = [s \in Sources |-> "none"]
  /\ opc = "m_call"
  /\ InitFields
  /\ validPaths \in InputLists
  /\ \E f0, f1 \in InputFiles :
       files = [p \in Paths |->
                  IF p = PartPath(0) /\ Len(validPaths) >= 1 THEN f0
                  ELSE IF p = PartPath(1) /\ Len(validPaths) >= 2 THEN f1
                  ELSE NoFile]

\* audio_utils.py:6-59: merge_audio_files(input_files, output_file) raises or
\* writes output_file and returns its path
MergeCall ==
  /\ mode = "merge" /\ opc = "m_call"
  /\ mergeCalls' = Append(mergeCalls, validPaths)
  /\ mergeRaised' = MergeRaises(validPaths)
  /\ IF MergeRaises(validPaths)
     THEN opc' = "m_raised" /\ UNCHANGED <<files, result>>
     ELSE /\ opc' = "m_done"
          /\ files' = [files EXCEPT ![MergedPath] = merge_audio_files(validPaths)]
          /\ result' = MergedPath
  /\ IF opc' = "m_done" THEN NoteWrite(MergedPath, OrchestratorThread) ELSE UNCHANGED writtenBy
  /\ UNCHANGED <<mode, kind, isRecording, outputPaths, oidx, validPaths, filterSeen,
                 joinedDead, removeFailed, srcVars, legVars, natVars, delivered,
                 stopVars, histVars, natAux>>

MergeNext == MergeCall

MergeSpec == MergeInit /\ [][MergeNext]_vars

ConstructNext == MultiRecorderInit \/ Next

ConstructSpec == ConstructInit /\ [][ConstructNext]_vars

SourceSpec == SourceInit /\ [][SourceNext]_vars

-----------------------------------------------------------------------------
(* Scheduling. The thread of MultiRecorder.record() and the threads inside  *)
(* stop() keep running; a source thread may hang and the platform may       *)
(* deliver nothing, so no fairness is assumed of them in FairSpec.          *)

StopperStep(t) == StopStep(t) \/ MultiStopFlag(t)

FairSpec ==
  /\ Spec
  /\ WF_vars(MultiRecordStep)
  /\ \A t \in Stoppers : WF_vars(StopperStep(t))

\* A source used alone: the thread of record() and the threads inside stop()
\* keep running; the platform may deliver no buffer.
RecordThreadStep(s) ==
  \/ LegacyRecordSetFlag(s) \/ LegacyRecordClear(s) \/ LegacyRecordOpen(s)
  \/ LegacyRecordWrite(s) \/ LegacyRecordExit(s) \/ LegacyRecordFinally(s)
  \/ NativeRecordSetup(s) \/ NativeRecordSetFlag(s) \/ NativeRecordStart(s)
  \/ NativeRecordClear(s) \/ NativeRecordExit(s)
  \/ StopStep(s)

FairSourceSpec ==
  /\ SourceSpec
  /\ \A s \in Sources : WF_vars(RecordThreadStep(s))
  /\ \A t \in Stoppers : WF_vars(StopStep(t))

-----------------------------------------------------------------------------
\* a call of MultiRecorder.stop() that passed the test of line 89 is running
\* while record() is in its wait loop
StopRunningInWait == opc = "o_wait" /\ \E t \in Stoppers : spc[t] # "idle"

\* C3: once MultiRecorder.stop() is running while record() is in its wait loop,
\* record() returns, whatever the source threads do (a source that never leaves
\* its loop, a source stop() that raises).
C3_RecordReturnsAfterStop == StopRunningInWait ~> opc = "o_done"

\* record() has returned although a source thread is still in its loop, its
\* stop event not set
C3_Witness ==
  /\ opc = "o_done" /\ stopsEntered >= 1
  /\ \E s \in Sources : tpc[s] \in {"l_loop", "n_loop"} /\ ~stopEvent[s]

-----------------------------------------------------------------------------
Returned == opc = "o_done"

\* what the filter read of the collected paths: the paths it found to exist
\* with a size above the header size, in the order of collection
SeenValid(e) == e[2] /\ e[3] > HeaderSize
SeenValidPaths ==
  LET v == SelectSeq(filterSeen, SeenValid) IN [i \in 1..Len(v) |-> v[i][1]]

\* C1: MultiRecorder.record() has not returned while a thread it started is alive.
C1_NoReturnWhileThreadAlive == Returned => \A s \in Sources : ~Alive(s)

\* C4: MultiRecorder.record() does not leave its wait loop, and so does not
\* return, before a call of MultiRecorder.stop() has passed the test of line 89,
\* also when every source thread has ended.
C4_NoReturnBeforeStop ==
  opc \in {"o_join", "o_filter", "o_merge", "o_cleanup", "o_done"} => stopsEntered >= 1

C4_Witness ==
  /\ opc = "o_wait" /\ isRecording /\ stopsEntered = 0
  /\ \A s \in Sources : tpc[s] \in {"dead", "raised"}

\* sources [A, B]: record() of A raised; the thread of B had ended when its join
\* returned, and the filter found the file of B, the only collected path, valid
AFailedBSucceeded ==
  /\ tpc[0] = "raised"
  /\ 1 \in joinedDead
  /\ Len(filterSeen) = 1
  /\ filterSeen[1][1] = PartPath(1) /\ SeenValid(filterSeen[1])

\* C5: sources [A, B], record() of A raised, the thread of B ended before its
\* join returned and its file holds samples: MultiRecorder.record() calls the
\* merger once, on the file of B alone; the merged file holds the samples of B;
\* record() returns the merged path (the path of B if the merger raised).
C5_FailedSourceTolerated ==
  AFailedBSucceeded =>
    /\ opc = "o_cleanup" =>
         /\ mergeCalls = << <<PartPath(1)>> >>
         /\ files[MergedPath].exists
         /\ files[MergedPath].data = files[PartPath(1)].data
    /\ Returned =>
         /\ mergeCalls = << <<PartPath(1)>> >>
         /\ result = IF mergeRaised THEN PartPath(1) ELSE MergedPath
         /\ ~mergeRaised =>
              /\ files[MergedPath].exists
              /\ FileSize(files[MergedPath]) = filterSeen[1][3]

C5_Witness == AFailedBSucceeded /\ Returned /\ result = MergedPath

\* C6: when the merger raised, MultiRecorder.record() returns the first collected
\* path that the filter found valid, and that file exists.
C6_FallbackIsValidPath ==
  (Returned /\ mergeRaised) =>
    /\ SeenValidPaths # <<>>
    /\ result = SeenValidPaths[1]
    /\ files[result].exists

\* C7: MultiRecorder.record() returns the empty result, the merger not called,
\* exactly when the filter found no collected path that exists with a size above
\* 44 bytes; otherwise the merger is called once, on exactly those paths.
C7_EmptyResultIffNoValidPath ==
  /\ Returned =>
       /\ (result = EmptyResult) <=> (SeenValidPaths = <<>>)
       /\ mergeCalls = IF SeenValidPaths = <<>> THEN <<>> ELSE <<SeenValidPaths>>
  /\ opc \in {"o_merge", "o_cleanup"} => SeenValidPaths # <<>>
  /\ opc = "o_merge" => validPaths = SeenValidPaths
  /\ opc = "o_cleanup" => mergeCalls = <<SeenValidPaths>>

C7_Witness == Returned /\ result = EmptyResult /\ filterSeen # <<>>

\* the merged file exists; a part file exists only if its removal failed
PartFilesGone ==
  /\ files[MergedPath].exists
  /\ \A s \in Sources : files[PartPath(s)].exists => PartPath(s) \in removeFailed

\* C8: at the return of a merged path the merged file exists and the part file
\* of no source exists, unless its removal failed.
C8_PartFilesRemoved ==
  [][(opc # "o_done" /\ opc' = "o_done" /\ result' = MergedPath) => PartFilesGone']_vars

\* C9: in one recording one call of MultiRecorder.stop() has effect, and the
\* stop() of each source is called once.
C9_StopEffectiveOnce ==
  /\ stopsEntered <= 1
  /\ \A s \in Sources : srcStops[s] <= 1

-----------------------------------------------------------------------------
(* A capture source used alone (SourceSpec, FairSourceSpec)                  *)

RecordInvoked(s) == tpc[s] # "idle"
RecordReturned(s) == tpc[s] \in {"ret", "raised"}

\* stop() of source s is being called, record() was invoked and no buffer has
\* been received
StopCalledBeforeFrame(s) ==
  /\ RecordInvoked(s) /\ delivered[s] = 0
  /\ \E t \in Stoppers : spc[t] = "call" /\ sidx[t] = s

\* C2: a stop() called after record() was invoked and before a buffer was
\* received makes record() return.
C2_StopBeforeFrameReturns ==
  \A s \in Sources : StopCalledBeforeFrame(s) ~> RecordReturned(s)

\* what a stop() of source s can change: the fields of the recorder, the
\* platform objects and the output file
SourceState(s) ==
  <<recording[s], stopEvent[s], writer[s], inputFinished[s], stream[s],
    files[PartPath(s)]>>

\* executor e takes the first step of a stop() (the test of the flag)
EntersStop(e) == AtStopEntry(e) /\ ~AtStopEntry(e)'
StopReturned(e) == IF e \in Stoppers THEN spc'[e] = "idle" ELSE tpc'[e] = "ret"

\* a stop() entered while the source is not recording returns at once, before
\* any platform call, and changes nothing of the source
StopWhenIdleIsNoOp ==
  \A e \in Stoppers \cup Sources :
    (EntersStop(e) /\ ~recording[ExecSrc(e)]) =>
      /\ StopReturned(e)
      /\ SourceState(ExecSrc(e))' = SourceState(ExecSrc(e))

\* setting a stop event that is set changes nothing of the source
SetAgainIsNoOp ==
  \A t \in Stoppers :
    (spc[t] = "l_set" /\ spc'[t] # "l_set" /\ stopEvent[sidx[t]]) =>
      SourceState(sidx[t])' = SourceState(sidx[t])

\* after a stop() has returned, and until record() writes the flag or the event
\* again, the source is not recording or its stop event is set already
AfterStopNothingLeft ==
  \A s \in Sources :
    lastOp[s] = "stop" =>
      \/ ~recording[s]
      \/ kind[s] = "legacy" /\ stopEvent[s]

\* C10: stop() of a source is idempotent.
\*  - a stop() entered while the source is not recording returns at once (before
\*    any platform call) and changes nothing of the source;
\*  - after a stop() has returned, and until record() writes the flag or the
\*    event again, the source is not recording, or (LegacyRecorder) its stop
\*    event is set already, and setting it again changes nothing: a second
\*    stop() leaves the state and the file that the first left.
C10_StopIdempotent ==
  /\ []AfterStopNothingLeft
  /\ [][StopWhenIdleIsNoOp /\ SetAgainIsNoOp]_vars

C10_Witness ==
  \E s \in Sources :
    /\ srcStops[s] >= 2 /\ lastOp[s] = "stop"
    /\ stopEvent[s] /\ \A t \in Stoppers : spc[t] = "idle"

\* the output file of source s is finalized: the SoundFile is closed
\* (LegacyRecorder); markAsFinished() was called and finishWriting has completed
\* or its wait has elapsed (NativeRecorder)
Finalized(s) ==
  IF kind[s] = "legacy"
  THEN files[PartPath(s)].exists /\ files[PartPath(s)].closed
  ELSE inputFinished[s] /\ writer[s] \in {"completed", "failed", "finishing"}

\* C12: when record() of a source has returned, its output file is finalized,
\* also when stop() ran on another thread.
C12_FinalizedOnReturn == \A s \in Sources : tpc[s] = "ret" => Finalized(s)

\* a platform failure has happened in the record() of source s.
\* LegacyRecorder: SoundFile or InputStream raised (legacy_recorder.py:73-76).
\* NativeRecorder: _setup_writer or _setup_stream raised (no stream was built,
\* native_recorder.py:230-231), or the capture did not start (the stream is
\* still "ready" after line 244).
PlatformFailed(s) ==
  IF kind[s] = "legacy"
  THEN raising[s]
  ELSE \/ tpc[s] \notin {"idle", "n_entry"} /\ stream[s] = "none"
       \/ tpc[s] \notin {"idle", "n_entry", "n_flag", "n_start"} /\ stream[s] = "ready"

\* C13: after a platform failure during record(), record() does not return a
\* path as if it had succeeded: the failure leaves record() as an error.
C13_PlatformFailurePropagates ==
  \A s \in Sources : PlatformFailed(s) => tpc[s] # "ret"

\* C15: when record() of a LegacyRecorder has returned, no enqueued buffer is
\* left in the queue: every buffer the callback put has been written to the file.
C15_NoEnqueuedBufferLost ==
  \A s \in Sources :
    (kind[s] = "legacy" /\ tpc[s] = "ret") =>
      /\ q[s] = <<>>
      /\ files[PartPath(s)].data = [i \in 1..delivered[s] |-> Frame(s, i)]

-----------------------------------------------------------------------------
(* merge_audio_files (MergeSpec)                                             *)

Merged == opc = "m_done"
In0 == files[PartPath(0)]
In1 == files[PartPath(1)]
Out == files[MergedPath]
Longest == IF Len(In0.data) > Len(In1.data) THEN Len(In0.data) ELSE Len(In1.data)

\* two mono inputs, the first shorter than the second
TwoMonoShortLong ==
  /\ Merged /\ Len(validPaths) = 2
  /\ In0.channels = 1 /\ In1.channels = 1
  /\ Len(In0.data) < Len(In1.data)

\* the peak of the sum of two mono inputs, in samples
PeakOfSum ==
  Peak([i \in 1..Longest |->
          (IF i <= Len(In0.data) THEN In0.data[i][1] ELSE 0)
          + (IF i <= Len(In1.data) THEN In1.data[i][1] ELSE 0)])

\* C16 as stated: the output of two inputs is as long as the longest, and for
\* two mono inputs of lengths L1 < L2 every output sample from index L1 on
\* equals the sample of the second input.
C16_TailIsSecondInput ==
  /\ (Merged /\ Len(validPaths) = 2) => Len(Out.data) = Longest
  /\ TwoMonoShortLong =>
       \A i \in (Len(In0.data) + 1)..Len(In1.data) : Out.data[i][1] = In1.data[i][1]

\* C16, amended: the output of two inputs is as long as the longest; for two
\* mono inputs of lengths L1 < L2 every output sample from index L1 on is the
\* sample of the second input alone: that sample itself when the peak of the sum
\* does not exceed full scale, and otherwise that sample divided by the peak
\* (rounded to a 16-bit sample), with no contribution of the first input.
C16_TailIsSecondInputScaled ==
  /\ (Merged /\ Len(validPaths) = 2) => Len(Out.data) = Longest
  /\ TwoMonoShortLong =>
       \A i \in (Len(In0.data) + 1)..Len(In1.data) :
         Out.data[i][1] =
           IF PeakOfSum > FullScale
           THEN Clip(RoundHalfEven(In1.data[i][1] * FullScale, PeakOfSum))
           ELSE In1.data[i][1]

C16_Witness ==
  /\ TwoMonoShortLong /\ PeakOfSum > FullScale
  /\ \E i \in (Len(In0.data) + 1)..Len(In1.data) :
       In1.data[i][1] # 0 /\ Out.data[i][1] # In1.data[i][1]

\* a merge of two inputs returned; the sum of the padded mono inputs, in
\* multiples of 1 / Unit, and its absolute peak
MergedTwo == Merged /\ Len(validPaths) = 2
SumOfInputs == Mixed(validPaths)
PeakOfInputs == Peak(SumOfInputs)

\* C17: with two inputs, when the absolute peak of the sample-wise sum exceeds
\* 1.0 every output sample is the sum divided by the peak, and the output peak
\* is full scale; when it does not, every output sample is the sum itself
\* (each value as the nearest 16-bit sample).
C17_NormalizedOnlyAbovePeak ==
  MergedTwo =>
    IF PeakOfInputs > Unit
    THEN /\ \A i \in 1..Len(Out.data) :
              Out.data[i][1] = RoundHalfEven(SumOfInputs[i] * FullScale, PeakOfInputs)
         /\ \E i \in 1..Len(Out.data) : Abs(Out.data[i][1]) = FullScale
    ELSE \A i \in 1..Len(Out.data) :
           Out.data[i][1] = RoundHalfEven(SumOfInputs[i] * FullScale, Unit)

\* a sum of exactly +1.0: not above the threshold of audio_utils.py:54, and
\* not a 16-bit sample
C17_SumAtFullScale ==
  /\ MergedTwo /\ PeakOfInputs = Unit
  /\ \E i \in 1..Len(Out.data) : SumOfInputs[i] = Unit /\ Out.data[i][1] = MaxSample

\* What the code keeps of it: the same, for every sample whose nearest integer
\* is a 16-bit sample
NormalizedUnlessClipped ==
  MergedTwo =>
    \A i \in 1..Len(Out.data) :
      LET d == IF PeakOfInputs > Unit THEN PeakOfInputs ELSE Unit
          r == RoundHalfEven(SumOfInputs[i] * FullScale, d)
      IN r <= MaxSample => Out.data[i][1] = r

\* a merge of a single input returned
MergedOne == Merged /\ Len(validPaths) = 1

\* C18: with a single input the output file holds the sample values, the
\* number of frames, the channels and the sample rate of the input, samples at
\* the extremes of the 16-bit range included.
C18_SingleInputCopied ==
  MergedOne =>
    /\ Out.exists
    /\ Out.data = In0.data
    /\ Out.channels = In0.channels
    /\ Out.rate = In0.rate

\* a stereo input at another rate than the configured one, holding both
\* extremes, was copied
C18_Witness ==
  /\ MergedOne
  /\ In0.channels = 2 /\ In0.rate # SampleRate
  /\ \E i \in 1..Len(In0.data) : In0.data[i] = <<MinSample, MaxSample>>
  /\ Out.data = In0.data

-----------------------------------------------------------------------------
(* The channels of the merged file (Spec)                                    *)

\* C19: every merged file that MultiRecorder.record() returns has one channel,
\* whatever the number of valid part files and their channels.
C19_MergedIsMono ==
  (Returned /\ result = MergedPath) => files[MergedPath].channels = 1

\* a single valid part file of two channels was merged
C19_StereoCopied ==
  /\ Returned /\ result = MergedPath
  /\ Len(validPaths) = 1
  /\ files[MergedPath].channels = NativeChannels

-----------------------------------------------------------------------------
(* MultiRecorder.stop(): the recorders first, the flag last (Spec)           *)

\* C20: in the step of MultiRecorder.stop() that makes _is_recording false,
\* stop() has already been called on every recorder of the MultiRecorder.
C20_SourcesStoppedBeforeFlag ==
  [][(isRecording /\ ~isRecording') => \A s \in Recorders : srcStops[s] >= 1]_vars

\* stop() cleared the flag after going through both recorders, and record()
\* left its wait loop
C20_Witness ==
  /\ mode = "orch" /\ stopsEntered >= 1 /\ ~isRecording
  /\ opc = "o_join"
  /\ \A s \in Recorders : srcStops[s] >= 1

-----------------------------------------------------------------------------
(* The is_recording property                                                 *)

\* base_recorder.py:7-11 declares is_recording as an abstract property.
\* MultiRecorder (multi_recorder.py:104-107) overrides it; NativeRecorder
\* (native_recorder.py:69, 106-109) is no subclass of BaseRecorder and defines its
\* own; LegacyRecorder (legacy_recorder.py:12-116) defines none.
AbstractMethods(k) == IF k = "legacy" THEN {"is_recording"} ELSE {}

\* what reading recorders[s].is_recording gives: NativeRecorder returns
\* self.is_writing; on a LegacyRecorder the getter of BaseRecorder runs, whose
\* body is `pass`, whatever self._recording holds
is_recording(s) ==
  IF "is_recording" \in AbstractMethods(kind[s])
  THEN "None"
  ELSE IF recording[s] THEN "True" ELSE "False"

\* multi_recorder.py:104-107: return self._is_recording
multi_is_recording == IF isRecording THEN "True" ELSE "False"

\* C14: is_recording of each source and of the MultiRecorder is part of the
\* common contract: every recorder class implements it; it reads False before
\* record(), True from the start of the capture until a stop takes effect, and
\* False once record() has returned or raised.
C14_IsRecordingContract ==
  /\ \A s \in Recorders :
       /\ AbstractMethods(kind[s]) = {}
       /\ tpc[s] = "idle" => is_recording(s) = "False"
       /\ (tpc[s] \in {"l_clear", "l_open", "l_loop", "n_start", "n_clear", "n_loop"}
             /\ srcStops[s] = 0) => is_recording(s) = "True"
       /\ tpc[s] \in {"ret", "raised", "dead"} => is_recording(s) = "False"
  /\ opc = "o_idle" => multi_is_recording = "False"
  /\ (opc \in {"o_spawn", "o_wait"} /\ stopsEntered = 0) => multi_is_recording = "True"
  /\ opc \in {"o_done", "o_raised"} => multi_is_recording = "False"

-----------------------------------------------------------------------------
(* Construction of a MultiRecorder (ConstructSpec)                           *)

Constructed == opc # "o_new"

\* C11: a MultiRecorder with an empty list of recorders never exists (the
\* construction fails), and the failed attempt leaves the recording state (flag,
\* threads, collected paths) as it was.
C11_EmptyRejectedAtConstruction ==
  /\ Constructed => Recorders # {}
  /\ Recorders = {} =>
       /\ ~isRecording /\ outputPaths = <<>>
       /\ \A s \in Sources : tpc[s] = "idle"

-----------------------------------------------------------------------------
(* LegacyRecorder: the order of the buffers in the file (SourceSpec)         *)

IsPrefix(xs, ys) == Len(xs) <= Len(ys) /\ xs = SubSeq(ys, 1, Len(xs))

\* the buffers the platform handed to the callback of source s, as frames
DeliveredFrames(s) == [i \in 1..delivered[s] |-> Frame(s, i)]

\* C21: at every moment the buffers written to the file of a LegacyRecorder are
\* a prefix of the buffers delivered to its callback: in arrival order, none
\* twice.
C21_WrittenIsPrefixOfDelivered ==
  \A s \in Sources :
    kind[s] = "legacy" => IsPrefix(files[PartPath(s)].data, DeliveredFrames(s))

\* the first buffer is in the file while the second waits in the queue
C21_Witness ==
  \E s \in Sources :
    /\ kind[s] = "legacy" /\ tpc[s] = "l_loop"
    /\ files[PartPath(s)].data = <<Frame(s, 1)>>
    /\ q[s] = <<2>>

-----------------------------------------------------------------------------
(* LegacyRecorder: the queue between the callback and the loop (SourceSpec)  *)

\* C22: the queue of a LegacyRecorder has a capacity, and the number of pending
\* buffers never exceeds it, however far the callback runs ahead of the loop.
C22_QueueBounded ==
  \A s \in Sources :
    (kind[s] = "legacy" /\ q[s] # <<>>) => (maxsize > 0 /\ Len(q[s]) <= maxsize)

\* every buffer the platform delivered is pending at once
C22_AllDeliveredPending ==
  \E s \in Sources : kind[s] = "legacy" /\ delivered[s] = MaxFrames /\ Len(q[s]) = MaxFrames

-----------------------------------------------------------------------------
(* NativeRecorder.stop() (SourceSpec, FairSourceSpec)                        *)

Executors == Stoppers \cup Sources
StopWaitEnded == {"stop_ack", "stop_timeout"}
FinishWaitEnded == {"finish_done", "finish_timeout", "finish_failed"}

\* the calls of one stop() in the order of the claim: the stream is asked to
\* stop first, the input is marked next, the writer is asked to finish last
InStopOrder(log) ==
  \A i \in 1..Len(log) :
    /\ log[i] \in StopWaitEnded \cup {"stop_raises"} => i = 1
    /\ log[i] = "mark" => i = 2 /\ log[1] \in StopWaitEnded
    /\ log[i] \in FinishWaitEnded => i = 3 /\ log[2] = "mark"

\* C23: a stop() of a NativeRecorder that found it recording asks the stream to
\* stop and waits for the acknowledgment, then marks the writer input as
\* finished, then asks the writer to finish and waits; the input is never
\* marked before the stream was asked to stop, and the writer is never asked
\* to finish before the input was marked.
C23_StopStepsInOrder ==
  /\ \A e \in Executors : InStopOrder(stopLog[e])
  /\ \A s \in Sources :
       (kind[s] = "native" /\ writer[s] \in {"finishing", "completed", "failed"})
         => inputFinished[s]

\* a stop() called from outside went through all three steps
C23_Witness ==
  \E t \in Stoppers :
    /\ kind[sidx[t]] = "native" /\ spc[t] = "idle"
    /\ stopLog[t] = <<"stop_ack", "mark", "finish_done">>
    /\ writer[sidx[t]] = "completed"

\* the stop() of thread e ran to its last line and returned, and what its
\* wait of line 298 ended with
LastCall(e) == stopLog[e][Len(stopLog[e])]
StopRanToEnd(e) == stopLog[e] # <<>> /\ LastCall(e) \in FinishWaitEnded

\* C24: when the writer of a NativeRecorder is in its failed state after the
\* finish step of stop(), no stop() that saw it returns normally, and the
\* record() that ends through it does not return normally either.
C24_WriterFailureSurfaced ==
  /\ \A e \in Executors : ~(StopRanToEnd(e) /\ LastCall(e) = "finish_failed")
  /\ \A s \in Sources : (kind[s] = "native" /\ writer[s] = "failed") => tpc[s] # "ret"

\* record() returned its path after a stop() found the writer failed and
\* returned
C24_FailedWriterReturned ==
  \E s \in Sources, e \in Executors :
    /\ kind[s] = "native" /\ tpc[s] = "ret" /\ writer[s] = "failed"
    /\ ExecSrc(e) = s /\ StopRanToEnd(e) /\ LastCall(e) = "finish_failed"

\* thread e is inside a stop() of a NativeRecorder, past the guard
InNativeStop(e) == ExecPc(e) \in {"ns_flag", "ns_stopcap", "ns_mark", "ns_finish", "ns_hung"}

\* C25: a stop() of a NativeRecorder always ends; when the acknowledgment of the
\* stream or the completion of the writer does not arrive, the wait ends at its
\* timeout and stop() goes on: the input is still marked as finished, the writer
\* is still asked to finish, and stop() returns without raising.
C25_StopEndsDespiteTimeouts ==
  /\ \A e \in Executors : (ExecPc(e) = "ns_flag") ~> ~InNativeStop(e)
  /\ [](\A e \in Executors :
          (stopLog[e] # <<>> /\ stopLog[e][1] = "stop_timeout" /\ ~InNativeStop(e))
            => (StopRanToEnd(e) /\ stopLog[e][2] = "mark"))

\* a stop() returned after both of its waits had timed out
C25_Witness ==
  \E t \in Stoppers :
    /\ kind[sidx[t]] = "native" /\ spc[t] = "idle"
    /\ stopLog[t] = <<"stop_timeout", "mark", "finish_timeout">>
    /\ inputFinished[sidx[t]] /\ writer[sidx[t]] = "finishing"

-----------------------------------------------------------------------------
(* NativeRecorder: the delegate callback (SourceSpec)                        *)

\* C26: within one record() of a NativeRecorder the session of the writer is
\* started at most once, at the timestamp of the first buffer that found
\* is_writing set, and before any buffer is appended; a file that holds a
\* buffer had its session started exactly once.
C26_SessionStartedOnce ==
  \A s \in Sources :
    kind[s] = "native" =>
      /\ cbHist[s].sessionStarts <= 1
      /\ cbHist[s].sessionStarts = 1 => cbHist[s].sessionAt = cbHist[s].firstActive
      /\ ~cbHist[s].appendBeforeSession
      /\ files[PartPath(s)].data # <<>> => cbHist[s].sessionStarts = 1
      /\ sessionStarted[s] <=> cbHist[s].sessionStarts >= 1

\* two buffers are in the file, the session was started once, at the first
C26_Witness ==
  \E s \in Sources :
    /\ kind[s] = "native"
    /\ Len(files[PartPath(s)].data) = 2
    /\ cbHist[s].sessionStarts = 1 /\ cbHist[s].sessionAt = 1

\* C30: appendSampleBuffer_ is never called on the writer input of a
\* NativeRecorder after stop() has marked that input as finished, in any
\* interleaving of the delegate callback with a stop() on another thread.
C30_NoAppendAfterMark ==
  \A s \in Sources : kind[s] = "native" => ~cbHist[s].lateAppend

\* the callback is about to append, past both of its tests, and the input has
\* been marked as finished
C30_AppendPending ==
  \E s \in Sources : kind[s] = "native" /\ cbpc[s] = "append" /\ inputFinished[s]

-----------------------------------------------------------------------------
(* MultiRecorder: the collected paths and the part files (Spec)              *)

\* how often path p is in the list xs
RECURSIVE CountIn(_, _)
CountIn(xs, p) ==
  IF xs = <<>> THEN 0 ELSE (IF Head(xs) = p THEN 1 ELSE 0) + CountIn(Tail(xs), p)

\* every thread of record_stream that was started has ended
ThreadsEnded ==
  /\ mode = "orch" /\ opc \notin {"o_new", "o_idle", "o_spawn", "o_raised"}
  /\ \A s \in Sources : tpc[s] \in {"dead", "raised"}

\* C27: once every source thread of a recording has ended, output_paths holds
\* the path of each source whose record() returned exactly once and no other
\* entry, in whatever order the threads ended.
C27_OnePathPerReturnedSource ==
  ThreadsEnded =>
    /\ \A s \in Sources :
         CountIn(outputPaths, PartPath(s)) = IF tpc[s] = "dead" THEN 1 ELSE 0
    /\ Len(outputPaths) = Cardinality({s \in Sources : tpc[s] = "dead"})

\* both threads ended with a path, the second source first
C27_Witness ==
  /\ ThreadsEnded
  /\ outputPaths = <<PartPath(1), PartPath(0)>>

\* C28: in a recording of a MultiRecorder no file is written by more than one
\* thread: the part paths differ from each other and from the merged path, and
\* the part file of a source is written only by the thread that runs the
\* record() of that source.
C28_OneWriterPerFile ==
  /\ \A i, j \in Sources : i # j => PartPath(i) # PartPath(j)
  /\ \A i \in Sources : PartPath(i) # MergedPath
  /\ \A p \in Paths : Cardinality(writtenBy[p]) <= 1
  /\ \A s \in Sources : writtenBy[PartPath(s)] \subseteq {RecordThread}

\* the part file of the NativeRecorder was created by the thread of record(),
\* appended to by the delegate callback and finished by a thread calling stop()
C28_ThreeWriters ==
  \E s \in Sources :
    /\ mode = "orch" /\ kind[s] = "native"
    /\ writtenBy[PartPath(s)] = {RecordThread, CallbackThread, StopThread}

\* what holds of it: the paths differ, the part file of a LegacyRecorder is
\* written by its record() alone and the merged file by MultiRecorder.record()
LegacyFileHasOneWriter ==
  /\ \A s \in Sources : kind[s] = "legacy" => writtenBy[PartPath(s)] \subseteq {RecordThread}
  /\ writtenBy[MergedPath] \subseteq {OrchestratorThread}

\* the paths the filter of line 67 read: the inputs of the merge and the paths
\* it rejected
FilteredPaths == {filterSeen[i][1] : i \in 1..Len(filterSeen)}

\* C29: the clean-up of MultiRecorder.record() deletes a part file only if it
\* was an input of the merge or failed the filter: no file whose path was
\* appended after the filter ran is deleted unmerged.
C29_OnlyMergedOrRejectedDeleted ==
  [][\A p \in Paths :
       (opc = "o_cleanup" /\ files[p].exists /\ ~files'[p].exists) => p \in FilteredPaths]_vars

\* record() returned the merged file, and a part file that holds a buffer and
\* that the filter never read is gone
C29_UnmergedFileDeleted ==
  /\ Returned /\ result = MergedPath
  /\ \E s \in Sources :
       /\ PartPath(s) \notin FilteredPaths
       /\ delivered[s] >= 1 /\ CallbackThread \in writtenBy[PartPath(s)]
       /\ ~files[PartPath(s)].exists

====
